---- MODULE Spec2Model ----
(***************************************************************************)
(* Model of the rating engine of ratingTracker (src/rating_engine.py).     *)
(*                                                                         *)
(* Representation choices                                                  *)
(*  - A Python str is a sequence of one-character strings, so that split,  *)
(*    strip and int() are computed character by character.                 *)
(*  - A rating held in the player_ratings dictionary is a Python float.    *)
(*    It is modelled in fixed point: an integer number of 1/RS rating      *)
(*    points.  A rating written to a DataFrame cell by round() is a whole  *)
(*    number of points.                                                    *)
(*  - The value returned by calculate_win_probability is a binary          *)
(*    floating-point number [m, e] (value m * 2^e) with a PBits-bit        *)
(*    significand and the exponent range of an IEEE-754 double, so that    *)
(*    overflow of the exponential, underflow, absorption of a small term   *)
(*    in 1 + x and a tiny but non-zero quotient are all kept apart.        *)
(*  - A DataFrame is a record: which optional columns it has, how its Date *)
(*    column is represented, and the sequence of its rows.                 *)
(***************************************************************************)
EXTENDS Integers, Sequences, FiniteSets, TLC

\* ------------------------------------------------------------------------
\* State
\* ------------------------------------------------------------------------
VARIABLES
    data_df,             \* the caller's match log
    pc,                  \* "load": the caller is still recording matches;
                         \* "idle": between calls; else the running operation
    initial_ratings_df,  \* seed table passed to the current/last calculate_ratings
    player_ratings,      \* calculate_ratings: the running rating dictionary
    result_df,           \* calculate_ratings: the copy being annotated
    index,               \* calculate_ratings: next row of the loop
    locals,              \* calculate_ratings: locals of the last processed row
    new_df,              \* what the last completed calculate_ratings returned
    reply,               \* what calculate_championship_stats or
                         \* generate_leaderboard_with_changes has just returned
    earlier              \* the caller's record of completed replays (seeds, log)

vars == <<data_df, pc, initial_ratings_df, player_ratings, result_df, index,
          locals, new_df, reply, earlier>>

\* ------------------------------------------------------------------------
\* Bounds of the model
\* ------------------------------------------------------------------------
MaxRows == 2

\* ------------------------------------------------------------------------
\* Constants of the rating formula
\* ------------------------------------------------------------------------
K_FACTOR == 16
DIVISOR == 150
DefaultRating == 1200

\* ------------------------------------------------------------------------
\* Number representation
\* ------------------------------------------------------------------------
\* 2 ** (2 ** -k) in units of 2^-14, k = 1..14
Pow2Table == <<23170, 19484, 17867, 17109, 16743, 16562, 16473, 16428,
               16406, 16395, 16390, 16387, 16385, 16385>>
FracBits == Len(Pow2Table)
PBits == FracBits + 1
FracUnit == 2^FracBits
\* fixed-point ratings: RS units per rating point
RS == FracUnit \div K_FACTOR
\* log2(10) in units of 2^-14, the constant behind 10 ** x = 2 ** (x * log2 10)
Log2Of10 == 54426
\* exponent range of an IEEE-754 double: 2^1024 overflows, below 2^-1075 is 0
MaxExp == 1024
MinExp == 0 - 1075

Abs(x) == IF x < 0 THEN 0 - x ELSE x

\* n a rating in points as a fixed-point rating
Pts(n) == n * RS

\* m / 2^k rounded to the nearest integer, ties to even (m >= 0, k >= 0)
RoundShift(m, k) ==
    IF k = 0 THEN m
    ELSE IF k > 30 THEN 0
    ELSE LET q == m \div (2^k)
             r == m % (2^k)
             h == 2^(k - 1)
         IN  IF r > h \/ (r = h /\ q % 2 = 1) THEN q + 1 ELSE q

RECURSIVE BitLen(_)
BitLen(m) == IF m = 0 THEN 0 ELSE 1 + BitLen(m \div 2)

FZero == [m |-> 0, e |-> 0]
FOne == [m |-> FracUnit, e |-> 0 - FracBits]
FHalf == [m |-> FracUnit, e |-> 0 - FracBits - 1]

\* the float nearest to m * 2^e, significand of PBits bits (0 < m < 2^31)
FNorm(m, e) ==
    LET len == BitLen(m)
    IN  IF m = 0 THEN FZero
        ELSE IF len <= PBits THEN [m |-> m * 2^(PBits - len), e |-> e - (PBits - len)]
        ELSE LET k == len - PBits
                 r == RoundShift(m, k)
             IN  IF r = 2^PBits THEN [m |-> FracUnit, e |-> e + k + 1]
                 ELSE [m |-> r, e |-> e + k]

\* a + b for two non-negative floats
FAdd(a, b) ==
    IF a.m = 0 THEN b
    ELSE IF b.m = 0 THEN a
    ELSE LET hi == IF a.e >= b.e THEN a ELSE b
             lo == IF a.e >= b.e THEN b ELSE a
             sh == hi.e - lo.e
         IN  IF sh > PBits THEN hi
             ELSE FNorm(hi.m * 2^sh + lo.m, lo.e)

\* 1 / a for a positive float
FRecip(a) ==
    FNorm((2^(2 * PBits - 1) + a.m \div 2) \div a.m, 0 - (2 * PBits - 1) - a.e)

\* a float in [0, 1] in units of 2^-14, rounded to nearest
ToFrac(a) ==
    IF a.m = 0 THEN 0
    ELSE IF a.e + FracBits >= 0 THEN a.m * 2^(a.e + FracBits)
    ELSE RoundShift(a.m, 0 - (a.e + FracBits))

\* 2 ** (f / 2^14) in units of 2^-14, for 0 <= f < 2^14
RECURSIVE Pow2Frac(_, _, _)
Pow2Frac(f, k, acc) ==
    IF k > FracBits THEN acc
    ELSE LET bit == (f \div 2^(FracBits - k)) % 2
         IN  Pow2Frac(f, k + 1,
                      IF bit = 1 THEN RoundShift(acc * Pow2Table[k], FracBits)
                      ELSE acc)

\* x * log2(10) for x >= 0 in units of 2^-14
MulLog2Of10(x) ==
    (x \div FracUnit) * Log2Of10 + RoundShift((x % FracUnit) * Log2Of10, FracBits)

\* 10 ** (d / DIVISOR) for a rating difference d in 1/RS points:
\* a float, or "OverflowError" when the result exceeds the double range
Pow10(d) ==
    LET xq == (Abs(d) * (FracUnit \div RS) + DIVISOR \div 2) \div DIVISOR
        ya == MulLog2Of10(xq)
        y == IF d < 0 THEN 0 - ya ELSE ya
        n == y \div FracUnit
        f == y % FracUnit
    IN  IF n >= MaxExp THEN [err |-> "OverflowError", val |-> FZero]
        ELSE IF n < MinExp THEN [err |-> "", val |-> FZero]
        ELSE [err |-> "", val |-> FNorm(Pow2Frac(f, 1, FracUnit), n - FracBits)]

\* variant: clamps as soon as the ratings are 3000 points apart
calculate_win_probability_clamp3000(rating_a, rating_b) ==
    LET pw == Pow10(rating_b - rating_a)
    IN  IF pw.err = "OverflowError" \/ Abs(rating_b - rating_a) >= Pts(3000)
        THEN (IF rating_b > rating_a THEN FZero ELSE FOne)
        ELSE FRecip(FAdd(FOne, pw.val))

calculate_win_probability(rating_a, rating_b) ==
    LET pw == Pow10(rating_b - rating_a)
    IN  IF pw.err = "OverflowError"
        THEN (IF rating_b > rating_a THEN FZero ELSE FOne)
        ELSE FRecip(FAdd(FOne, pw.val))

\* variant: the step size is left out
calculate_new_rating_no_k(rating_a, score_a, expected_score_a) ==
    rating_a + (RS * (ToFrac(score_a) - ToFrac(expected_score_a))) \div FracUnit

\* variant: K * score - expected instead of K * (score - expected)
calculate_new_rating_precedence(rating_a, score_a, expected_score_a) ==
    rating_a + (RS * (K_FACTOR * ToFrac(score_a) - ToFrac(expected_score_a))) \div FracUnit

calculate_new_rating(rating_a, score_a, expected_score_a) ==
    rating_a + (K_FACTOR * RS * (ToFrac(score_a) - ToFrac(expected_score_a))) \div FracUnit

\* variant: the fraction is cut off
RoundDown(r) == r \div RS

\* Python round() of a float: nearest integer, ties to even
Round(r) ==
    LET q == r \div RS
        rem == r % RS
    IN  IF 2 * rem > RS \/ (2 * rem = RS /\ q % 2 = 1) THEN q + 1 ELSE q

\* ------------------------------------------------------------------------
\* Strings
\* ------------------------------------------------------------------------
Digits == <<"0", "1", "2", "3", "4", "5", "6", "7", "8", "9">>
IsDigit(c) == \E i \in 1..10 : Digits[i] = c
DigitVal(c) == (CHOOSE i \in 1..10 : Digits[i] = c) - 1

\* str.strip(): drop leading and trailing blanks
RECURSIVE LStrip(_)
LStrip(s) == IF s # <<>> /\ Head(s) = " " THEN LStrip(Tail(s)) ELSE s
RECURSIVE RStrip(_)
RStrip(s) ==
    IF s # <<>> /\ s[Len(s)] = " " THEN RStrip(SubSeq(s, 1, Len(s) - 1)) ELSE s
Strip(s) == RStrip(LStrip(s))

\* str.split(sep): the pieces between the occurrences of sep
RECURSIVE SplitFrom(_, _, _)
SplitFrom(s, sep, cur) ==
    IF s = <<>> THEN <<cur>>
    ELSE IF Head(s) = sep THEN <<cur>> \o SplitFrom(Tail(s), sep, <<>>)
    ELSE SplitFrom(Tail(s), sep, Append(cur, Head(s)))
Split(s, sep) == SplitFrom(s, sep, <<>>)

\* str.lower()
UpperLetters == <<"A", "B", "C", "D", "E", "F", "G", "H", "I", "J", "K", "L", "M",
                  "N", "O", "P", "Q", "R", "S", "T", "U", "V", "W", "X", "Y", "Z">>
LowerLetters == <<"a", "b", "c", "d", "e", "f", "g", "h", "i", "j", "k", "l", "m",
                  "n", "o", "p", "q", "r", "s", "t", "u", "v", "w", "x", "y", "z">>
LowerChar(c) ==
    IF \E i \in 1..26 : UpperLetters[i] = c
    THEN LowerLetters[CHOOSE i \in 1..26 : UpperLetters[i] = c]
    ELSE c
Lower(s) == [i \in 1..Len(s) |-> LowerChar(s[i])]

\* sub in s
Contains(s, sub) ==
    \E i \in 1..(Len(s) - Len(sub) + 1) : SubSeq(s, i, i + Len(sub) - 1) = sub

\* str() of a cell: an empty cell of a CSV file is NaN
Str(val) == IF val = <<>> THEN <<"n", "a", "n">> ELSE val

RECURSIVE DecimalValue(_, _)
DecimalValue(s, acc) ==
    IF s = <<>> THEN acc ELSE DecimalValue(Tail(s), 10 * acc + DigitVal(Head(s)))

\* int(str): blanks around, an optional sign, then one or more digits;
\* anything else raises ValueError
ParseInt(s) ==
    LET t == Strip(s)
        signed == t # <<>> /\ Head(t) \in {"+", "-"}
        body == IF signed THEN Tail(t) ELSE t
    IN  IF body = <<>> \/ \E i \in 1..Len(body) : ~IsDigit(body[i])
        THEN [err |-> "ValueError", val |-> 0]
        ELSE [err |-> "",
              val |-> IF signed /\ Head(t) = "-" THEN 0 - DecimalValue(body, 0)
                      ELSE DecimalValue(body, 0)]

\* ------------------------------------------------------------------------
\* Inputs: names, result strings, match records, seed tables
\* ------------------------------------------------------------------------
NameA == <<"A">>
NameB == <<"B">>
NameC == <<"C">>
NameAPadded == <<"A", " ">>
NameCPadded == <<" ", "C">>

NoTag == <<>>
TagLeague == <<"L", "e", "a", "g", "u", "e">>

\* what the caller may record as one match: players, result, special tag
MatchChoices ==
    { [Player1 |-> NameA, Player2 |-> NameB, Result |-> <<"2", "-", "0">>, Special |-> NoTag],
      [Player1 |-> NameA, Player2 |-> NameB, Result |-> <<"0", "-", "0">>, Special |-> NoTag],
      [Player1 |-> NameAPadded, Player2 |-> NameB, Result |-> <<"3", "-", "3">>, Special |-> NoTag],
      [Player1 |-> NameB, Player2 |-> NameA, Result |-> <<"2", "-", "x">>, Special |-> NoTag],
      [Player1 |-> NameC, Player2 |-> NameB, Result |-> <<"1", "-", " ", "2">>, Special |-> NoTag],
      [Player1 |-> NameB, Player2 |-> NameC, Result |-> <<"2", "-", "0", "-", "1">>, Special |-> TagLeague],
      [Player1 |-> NameA, Player2 |-> NameA, Result |-> <<"2", "-", "0">>, Special |-> NoTag] }

Days == {1, 2}

\* the rating found in a log that already carries rating columns
PresetRating == DefaultRating

\* A and B seeded equal (C far above both); only C seeded, 3000 above the default
SeedsEqual ==
    <<[Player |-> NameA, Rating |-> 1200], [Player |-> NameB, Rating |-> 1200],
      [Player |-> NameC, Rating |-> 61200]>>
SeedsFarApart == <<[Player |-> NameCPadded, Rating |-> 4200]>>
SeedTables == {SeedsEqual, SeedsFarApart}

\* ------------------------------------------------------------------------
\* Dictionaries and DataFrames
\* ------------------------------------------------------------------------
EmptyDict == [k \in {} |-> 0]
Get(d, k, default) == IF k \in DOMAIN d THEN d[k] ELSE default
Put(d, k, v) == [j \in (DOMAIN d) \cup {k} |-> IF j = k THEN v ELSE d[j]]

\* a frame as read from a CSV file: dates are strings, 'Special' is a column
EmptyFrame(ratingCols) ==
    [ratingCols |-> ratingCols, specialCol |-> TRUE, dateRepr |-> "str", rows |-> <<>>]

\* DataFrame.copy()
Copy(df) == df

\* ------------------------------------------------------------------------
\* calculate_ratings
\* ------------------------------------------------------------------------
RECURSIVE SeedRatingsOnto(_, _)
SeedRatingsOnto(seeds, dict) ==
    IF seeds = <<>> THEN dict
    ELSE LET last == seeds[Len(seeds)]
         IN  Put(SeedRatingsOnto(SubSeq(seeds, 1, Len(seeds) - 1), dict),
                 Strip(last.Player), Pts(last.Rating))
\* variant: the dictionary of the previous replay is kept and re-seeded
SeedRatingsKeepingOld(seeds) == SeedRatingsOnto(seeds, player_ratings)

\* dict(zip(initial_ratings_df['Player'].str.strip(), initial_ratings_df['Rating']))
RECURSIVE SeedRatings(_)
SeedRatings(seeds) ==
    IF seeds = <<>> THEN EmptyDict
    ELSE LET last == seeds[Len(seeds)]
         IN  Put(SeedRatings(SubSeq(seeds, 1, Len(seeds) - 1)),
                 Strip(last.Player), Pts(last.Rating))

\* variant: the rating columns are reset to 0 even when they exist
EnsureRatingColumnsReset(df) ==
    [df EXCEPT !.ratingCols = TRUE,
               !.rows = [i \in 1..Len(df.rows) |->
                            [df.rows[i] EXCEPT !.RatingP1 = 0, !.RatingP2 = 0]]]

\* result_df = data_df.copy(), with the rating columns created (as 0) if missing
EnsureRatingColumns(df) ==
    IF df.ratingCols THEN df
    ELSE [df EXCEPT !.ratingCols = TRUE,
                    !.rows = [i \in 1..Len(df.rows) |->
                                 [df.rows[i] EXCEPT !.RatingP1 = 0, !.RatingP2 = 0]]]

\* variant: parts beyond the second are ignored
ParseResultFirstTwo(result_str) ==
    LET parts == Split(result_str, "-")
        s1 == ParseInt(parts[1])
        s2 == ParseInt(parts[2])
    IN  IF Len(parts) < 2 THEN [ok |-> FALSE, score1 |-> 0, score2 |-> 0]
        ELSE IF s1.err # "" \/ s2.err # "" THEN [ok |-> FALSE, score1 |-> 0, score2 |-> 0]
        ELSE [ok |-> TRUE, score1 |-> s1.val, score2 |-> s2.val]

\* the try block: split on '-', exactly two parts, both int()
ParseResult(result_str) ==
    LET parts == Split(result_str, "-")
        s1 == ParseInt(parts[1])
        s2 == ParseInt(parts[2])
    IN  IF Len(parts) # 2 THEN [ok |-> FALSE, score1 |-> 0, score2 |-> 0]
        ELSE IF s1.err # "" \/ s2.err # "" THEN [ok |-> FALSE, score1 |-> 0, score2 |-> 0]
        ELSE [ok |-> TRUE, score1 |-> s1.val, score2 |-> s2.val]

\* variant: a tie counts as a loss for both sides
ActualScoreNoDraw(mine, theirs) ==
    IF mine > theirs THEN FOne ELSE FZero

\* 1.0 if win, 0.0 if loss, 0.5 if the scores are equal
ActualScore(mine, theirs) ==
    IF mine > theirs THEN FOne ELSE IF theirs > mine THEN FZero ELSE FHalf

\* one iteration of the loop over result_df.iterrows()
MatchStep(ratings, row) ==
    LET player1 == Strip(row.Player1)
        player2 == Strip(row.Player2)
        rating1 == Get(ratings, player1, Pts(DefaultRating))
        rating2 == Get(ratings, player2, Pts(DefaultRating))
        parsed == ParseResult(row.Result)
        actual_score1 == ActualScore(parsed.score1, parsed.score2)
        actual_score2 == ActualScore(parsed.score2, parsed.score1)
        expected1 == calculate_win_probability(rating1, rating2)
        expected2 == calculate_win_probability(rating2, rating1)
        new_rating1 == calculate_new_rating(rating1, actual_score1, expected1)
        new_rating2 == calculate_new_rating(rating2, actual_score2, expected2)
    IN  IF ~parsed.ok
        THEN [skipped |-> TRUE, ratings |-> ratings, row |-> row, locals |-> <<>>]
        ELSE [skipped |-> FALSE,
              ratings |-> Put(Put(ratings, player1, new_rating1), player2, new_rating2),
              row |-> [row EXCEPT !.RatingP1 = Round(new_rating1),
                                  !.RatingP2 = Round(new_rating2)],
              locals |-> <<[rating1 |-> rating1, rating2 |-> rating2,
                            expected1 |-> expected1, expected2 |-> expected2,
                            new_rating1 |-> new_rating1, new_rating2 |-> new_rating2]>>]

\* the whole of calculate_ratings as a function of its two arguments
RECURSIVE ReplayRows(_, _, _)
ReplayRows(rows, i, ratings) ==
    IF i > Len(rows) THEN [rows |-> rows, ratings |-> ratings]
    ELSE LET step == MatchStep(ratings, rows[i])
         IN  ReplayRows([rows EXCEPT ![i] = step.row], i + 1, step.ratings)

CalculateRatings(df, seeds) ==
    LET start == EnsureRatingColumns(Copy(df))
        done == ReplayRows(start.rows, 1, SeedRatings(seeds))
    IN  [df |-> [start EXCEPT !.rows = done.rows], ratings |-> done.ratings]

\* an assignment: the value is computed once and Body reads it by name
With(value, Body(_)) == CHOOSE r \in {Body(x) : x \in {value}} : TRUE

\* DataFrame.sort_values(by=['Date', 'SL No']): stable insertion sort
Before(r, s) == r.Date < s.Date \/ (r.Date = s.Date /\ r.SLNo < s.SLNo)
RECURSIVE InsertRow(_, _)
InsertRow(sorted, r) ==
    IF sorted = <<>> THEN <<r>>
    ELSE IF Before(r, Head(sorted)) THEN <<r>> \o sorted
    ELSE <<Head(sorted)>> \o InsertRow(Tail(sorted), r)
\* variant: the rows are taken in the order of the input
KeepRowOrder(rows) == rows
RECURSIVE SortByDateSeq(_)
SortByDateSeq(rows) ==
    IF rows = <<>> THEN <<>>
    ELSE With(SortByDateSeq(SubSeq(rows, 1, Len(rows) - 1)),
              LAMBDA sorted : InsertRow(sorted, rows[Len(rows)]))

\* ------------------------------------------------------------------------
\* calculate_championship_stats
\* ------------------------------------------------------------------------
\* variant: the tag is searched as written, without lower()
is_excluded_as_written(val) ==
    Contains(Str(val), <<"l", "e", "a", "g", "u", "e">>)
        \/ Contains(Str(val), <<"c", "l", "u", "b", "m", "a", "t", "c", "h">>)
is_excluded(val) ==
    LET t == Lower(Str(val))
    IN  Contains(t, <<"l", "e", "a", "g", "u", "e">>)
            \/ Contains(t, <<"c", "l", "u", "b", "m", "a", "t", "c", "h">>)
NotExcluded(row) == ~is_excluded(row.Special)

\* pd.to_datetime on the Date column
ToDatetime(df) == [df EXCEPT !.dateRepr = "datetime"]

\* GroupBy.last() of one column: the value on the row of greatest SL No among
\* the rows of the group where the column is not null (NaN when there is none)
LastValid(group, col) ==
    LET valid == {r \in group : r[col] # <<>>}
    IN  IF valid = {} THEN <<>>
        ELSE (CHOOSE r \in valid : \A q \in valid : q.SLNo <= r.SLNo)[col]

\* sort_values('SL No').groupby(date).last(): per date, in date order, one row
\* made of the last non-null value of each column
RECURSIVE DailyFinalsOf(_, _)
DailyFinalsOf(rows, days) ==
    IF days = {} THEN <<>>
    ELSE LET d == CHOOSE x \in days : \A y \in days : x <= y
             group == {rows[i] : i \in {j \in 1..Len(rows) : rows[j].Date = d}}
             top == CHOOSE r \in group : \A q \in group : q.SLNo <= r.SLNo
             final == [top EXCEPT !.Player1 = LastValid(group, "Player1"),
                                  !.Player2 = LastValid(group, "Player2"),
                                  !.Result = LastValid(group, "Result"),
                                  !.Special = LastValid(group, "Special")]
         IN  <<final>> \o DailyFinalsOf(rows, days \ {d})
DailyFinals(rows) == DailyFinalsOf(rows, {rows[i].Date : i \in 1..Len(rows)})

\* the body of the loop over daily_finals: credit winner and loser
CreditFinal(tally, row) ==
    LET parsed == ParseResult(Str(row.Result))
        p1 == Strip(Str(row.Player1))
        p2 == Strip(Str(row.Player2))
        decisive == parsed.ok /\ parsed.score1 # parsed.score2
        winner == IF parsed.score1 > parsed.score2 THEN p1 ELSE p2
        loser == IF parsed.score1 > parsed.score2 THEN p2 ELSE p1
        titles == IF decisive /\ winner # <<>>
                  THEN Put(tally.titles, winner, Get(tally.titles, winner, 0) + 1)
                  ELSE tally.titles
        runner_ups == IF decisive /\ loser # <<>>
                      THEN Put(tally.runner_ups, loser, Get(tally.runner_ups, loser, 0) + 1)
                      ELSE tally.runner_ups
    IN  [titles |-> titles, runner_ups |-> runner_ups]

RECURSIVE CreditFinals(_, _)
CreditFinals(tally, finals) ==
    IF finals = <<>> THEN tally
    ELSE CreditFinals(CreditFinal(tally, Head(finals)), Tail(finals))

\* variant: the maps start with a title for A
TitleForA == [titles |-> Put(EmptyDict, NameA, 1), runner_ups |-> EmptyDict]
NoTitles == [titles |-> EmptyDict, runner_ups |-> EmptyDict]

calculate_championship_stats(df_arg) ==
    LET df == ToDatetime(Copy(df_arg))
        filtered_df == IF df.specialCol THEN SelectSeq(df.rows, NotExcluded) ELSE df.rows
    IN  IF df_arg.rows = <<>> THEN NoTitles
        ELSE IF filtered_df = <<>> THEN NoTitles
        ELSE CreditFinals(NoTitles, DailyFinals(filtered_df))

\* ------------------------------------------------------------------------
\* generate_leaderboard_with_changes
\* ------------------------------------------------------------------------
\* the keys of player_ratings_history in insertion order
RECURSIVE PlayersInOrder(_, _)
PlayersInOrder(rows, seen) ==
    IF rows = <<>> THEN seen
    ELSE LET p1 == Strip(Head(rows).Player1)
             p2 == Strip(Head(rows).Player2)
             in1 == \E i \in 1..Len(seen) : seen[i] = p1
             s1 == IF in1 THEN seen ELSE Append(seen, p1)
             in2 == \E i \in 1..Len(s1) : s1[i] = p2
         IN  PlayersInOrder(Tail(rows), IF in2 THEN s1 ELSE Append(s1, p2))

\* player_ratings_history[player]: the (date, rating) observations in order
RECURSIVE HistoryOf(_, _)
HistoryOf(rows, player) ==
    IF rows = <<>> THEN <<>>
    ELSE LET row == Head(rows)
             h1 == IF Strip(row.Player1) = player
                   THEN <<[date |-> row.Date, rating |-> row.RatingP1]>> ELSE <<>>
             h2 == IF Strip(row.Player2) = player
                   THEN <<[date |-> row.Date, rating |-> row.RatingP2]>> ELSE <<>>
         IN  h1 \o h2 \o HistoryOf(Tail(rows), player)

\* variant: only the first participant of a match is counted, and no win
StatsOfFirstSideOnly(rows, player) ==
    [matches |-> Cardinality({i \in 1..Len(rows) : Strip(rows[i].Player1) = player}),
     won |-> 0]

\* stats[player]: matches and wins
RECURSIVE StatsOf(_, _)
StatsOf(rows, player) ==
    IF rows = <<>> THEN [matches |-> 0, won |-> 0]
    ELSE LET row == Head(rows)
             rest == StatsOf(Tail(rows), player)
             parsed == ParseResult(row.Result)
             m1 == IF Strip(row.Player1) = player THEN 1 ELSE 0
             m2 == IF Strip(row.Player2) = player THEN 1 ELSE 0
             w == IF ~parsed.ok THEN 0
                  ELSE IF parsed.score1 > parsed.score2 THEN m1
                  ELSE IF parsed.score2 > parsed.score1 THEN m2
                  ELSE 0
         IN  [matches |-> rest.matches + m1 + m2, won |-> rest.won + w]

\* variant: the hundredths are cut off
WinPercentageCut(won, matches) ==
    IF matches > 0 THEN (100 * won) \div matches ELSE 0

\* round(won / matches, 2) if matches > 0 else 0.0, in hundredths; a quotient
\* half way between two hundredths (matches a multiple of 8) goes to the even one
WinPercentage(won, matches) ==
    LET q == (100 * won) \div matches
        twice == 2 * ((100 * won) % matches)
    IN  IF matches <= 0 THEN 0
        ELSE IF twice > matches \/ (twice = matches /\ q % 2 = 1) THEN q + 1
        ELSE q

\* one entry of leaderboard_data
EntryOf(player, history, stats, previous_date_limit, player_titles) ==
    LET current_rating == history[Len(history)].rating
        relevant_history == SelectSeq(history, LAMBDA h : h.date <= previous_date_limit)
        is_new == relevant_history = <<>>
        rating_change == IF is_new THEN 0
                         ELSE current_rating - relevant_history[Len(relevant_history)].rating
    IN  [PlayerName |-> player, LastRating |-> current_rating,
         MatchesPlayed |-> stats.matches, Won |-> stats.won,
         WinPercentage |-> WinPercentage(stats.won, stats.matches),
         RatingChange |-> rating_change, IsNew |-> is_new,
         Titles |-> Get(player_titles, player, 0)]
LeaderboardEntry(sorted, player, previous_date_limit, player_titles) ==
    With(HistoryOf(sorted, player), LAMBDA history :
        With(StatsOf(sorted, player), LAMBDA stats :
            EntryOf(player, history, stats, previous_date_limit, player_titles)))

\* leaderboard_data: one entry per player, in the order of the history's keys
RECURSIVE LeaderboardData(_, _, _, _)
LeaderboardData(sorted, players, previous_date_limit, player_titles) ==
    IF players = <<>> THEN <<>>
    ELSE <<LeaderboardEntry(sorted, Head(players), previous_date_limit, player_titles)>>
             \o LeaderboardData(sorted, Tail(players), previous_date_limit, player_titles)

\* sort_values(by='Last Rating', ascending=False) on a short frame: entries of
\* equal rating keep their order (one of the SortOutcomes below)
RECURSIVE InsertEntry(_, _)
InsertEntry(sorted, e) ==
    IF sorted = <<>> THEN <<e>>
    ELSE IF e.LastRating > Head(sorted).LastRating THEN <<e>> \o sorted
    ELSE <<Head(sorted)>> \o InsertEntry(Tail(sorted), e)
RECURSIVE SortByLastRating(_)
SortByLastRating(entries) ==
    IF entries = <<>> THEN <<>>
    ELSE With(SortByLastRating(SubSeq(entries, 1, Len(entries) - 1)),
              LAMBDA sorted : InsertEntry(sorted, entries[Len(entries)]))

\* sort_values(by='Last Rating', ascending=False) with the default
\* kind='quicksort', which is not a stable sort: it keeps the order of equal
\* keys only while the frame is short enough to be insertion-sorted (16 rows),
\* so here entries of equal rating come out in any order
SortOutcomes(entries) ==
    LET n == Len(entries)
        orders == {p \in [1..n -> 1..n] :
                      /\ \A i \in 1..n : \A j \in 1..n : p[i] = p[j] => i = j
                      /\ \A i \in 1..(n - 1) :
                             entries[p[i]].LastRating >= entries[p[i + 1]].LastRating}
    IN  {[i \in 1..n |-> entries[p[i]]] : p \in orders}

\* df.insert(0, 'Rank', range(1, len(df) + 1))
WithRank(entries) ==
    [i \in 1..Len(entries) |->
        [Rank |-> i, PlayerName |-> entries[i].PlayerName,
         LastRating |-> entries[i].LastRating,
         MatchesPlayed |-> entries[i].MatchesPlayed, Won |-> entries[i].Won,
         WinPercentage |-> entries[i].WinPercentage,
         RatingChange |-> entries[i].RatingChange, IsNew |-> entries[i].IsNew,
         Titles |-> entries[i].Titles]]

\* variant: the earliest date of the log
EarliestDate(rows) ==
    CHOOSE d \in {rows[i].Date : i \in 1..Len(rows)} :
        \A i \in 1..Len(rows) : d <= rows[i].Date
MaxDate(rows) ==
    CHOOSE d \in {rows[i].Date : i \in 1..Len(rows)} :
        \A i \in 1..Len(rows) : rows[i].Date <= d

\* every outcome of a call: the leaderboard returned, and the caller's frame
\* as the call leaves it
generate_leaderboard_with_changes(df_arg) ==
    IF df_arg.rows = <<>> THEN {[board |-> <<>>, arg |-> df_arg]}
    ELSE
      With(ToDatetime(df_arg), LAMBDA df :
      With(calculate_championship_stats(df).titles, LAMBDA player_titles :
      With(MaxDate(df.rows) - 1, LAMBDA previous_date_limit :
      With(SortByDateSeq(df.rows), LAMBDA sorted_df :
      With(PlayersInOrder(sorted_df, <<>>), LAMBDA players :
      With(LeaderboardData(sorted_df, players, previous_date_limit, player_titles),
           LAMBDA leaderboard_data :
          {[board |-> WithRank(ranked), arg |-> df] :
              ranked \in SortOutcomes(leaderboard_data)}))))))

\* ------------------------------------------------------------------------
\* The caller and the operations
\* ------------------------------------------------------------------------
Init ==
    /\ data_df \in {EmptyFrame(c) : c \in BOOLEAN}
    /\ pc = "load"
    /\ initial_ratings_df = <<>>
    /\ player_ratings = EmptyDict
    /\ result_df = EmptyFrame(TRUE)
    /\ index = 1
    /\ locals = <<>>
    /\ new_df = <<>>
    /\ reply = <<>>
    /\ earlier = {}

\* the caller records one more match: next sequence number, same or a later day
AppendMatch(c, day) ==
    /\ pc = "load"
    /\ Len(data_df.rows) < MaxRows
    /\ data_df.rows = <<>> => day = 1
    /\ \A i \in 1..Len(data_df.rows) : data_df.rows[i].Date <= day
    /\ data_df' = [data_df EXCEPT !.rows = Append(@,
           [SLNo |-> Len(data_df.rows) + 1, Date |-> day,
            Player1 |-> c.Player1, Player2 |-> c.Player2,
            Result |-> c.Result, Special |-> c.Special,
            RatingP1 |-> IF data_df.ratingCols THEN PresetRating ELSE 0,
            RatingP2 |-> IF data_df.ratingCols THEN PresetRating ELSE 0])]
    /\ UNCHANGED <<pc, initial_ratings_df, player_ratings, result_df, index,
                   locals, new_df, reply, earlier>>

\* the rows of the caller's file are in no particular order
SwapRows(i) ==
    /\ pc = "load"
    /\ i + 1 <= Len(data_df.rows)
    /\ data_df' = [data_df EXCEPT !.rows = [@ EXCEPT ![i] = data_df.rows[i + 1],
                                                     ![i + 1] = data_df.rows[i]]]
    /\ UNCHANGED <<pc, initial_ratings_df, player_ratings, result_df, index,
                   locals, new_df, reply, earlier>>

CallCalculateRatings(seeds) ==
    /\ pc \in {"load", "idle"}
    /\ pc' = "calculate_ratings"
    /\ initial_ratings_df' = seeds
    /\ player_ratings' = SeedRatings(seeds)
    /\ result_df' = EnsureRatingColumns(Copy(data_df))
    /\ index' = 1
    /\ locals' = <<>>
    /\ new_df' = <<>>
    /\ UNCHANGED <<data_df, reply, earlier>>

RatingsLoop ==
    /\ pc = "calculate_ratings"
    /\ index <= Len(result_df.rows)
    /\ \E step \in {MatchStep(player_ratings, result_df.rows[index])} :
           /\ player_ratings' = step.ratings
           /\ result_df' = [result_df EXCEPT !.rows[index] = step.row]
           /\ locals' = step.locals
    /\ index' = index + 1
    /\ UNCHANGED <<data_df, pc, initial_ratings_df, new_df, reply, earlier>>

Returning ==
    /\ pc = "calculate_ratings"
    /\ index > Len(result_df.rows)
    /\ new_df' = <<result_df>>
    /\ pc' = "idle"
    /\ UNCHANGED <<data_df, initial_ratings_df, player_ratings, result_df, index,
                   locals, reply>>

RatingsReturn ==
    /\ Returning
    /\ UNCHANGED earlier

\* the caller asks for the titles of its match log
CallChampionshipStats ==
    /\ pc = "idle"
    /\ reply' = <<calculate_championship_stats(data_df)>>
    /\ pc' = "calculate_championship_stats"
    /\ UNCHANGED <<data_df, initial_ratings_df, player_ratings, result_df, index,
                   locals, new_df, earlier>>

\* the caller asks for the leaderboard of the rated log it holds
CallLeaderboard ==
    /\ pc = "idle"
    /\ new_df # <<>>
    /\ \E call \in generate_leaderboard_with_changes(new_df[1]) :
           /\ reply' = <<call.board>>
           /\ new_df' = <<call.arg>>
    /\ pc' = "generate_leaderboard_with_changes"
    /\ UNCHANGED <<data_df, initial_ratings_df, player_ratings, result_df, index,
                   locals, earlier>>

\* the caller has used the reply
Resume ==
    /\ pc \in {"calculate_championship_stats", "generate_leaderboard_with_changes"}
    /\ pc' = "idle"
    /\ reply' = <<>>
    /\ UNCHANGED <<data_df, initial_ratings_df, player_ratings, result_df, index,
                   locals, new_df, earlier>>

Next ==
    \/ \E c \in MatchChoices, day \in Days : AppendMatch(c, day)
    \/ \E i \in 1..MaxRows : SwapRows(i)
    \/ \E seeds \in SeedTables : CallCalculateRatings(seeds)
    \/ RatingsLoop
    \/ RatingsReturn
    \/ CallChampionshipStats
    \/ CallLeaderboard
    \/ Resume

Spec == Init /\ [][Next]_vars

\* ========================================================================
\* Properties
\* ========================================================================
\* the caller holds the log calculate_ratings returned, as it was returned
Returned == pc = "idle" /\ new_df # <<>> /\ new_df[1].dateRepr = "str"
Out == new_df[1]
RowOf(rows, sl) == CHOOSE r \in {rows[i] : i \in 1..Len(rows)} : r.SLNo = sl
RatingsOfRow(r) == <<r.RatingP1, r.RatingP2>>
InLoop == pc = "calculate_ratings" /\ index <= Len(result_df.rows)

\* a result string that is two integers separated by a single '-'
IsIntegerText(t) ==
    LET u == Strip(t)
        body == IF u # <<>> /\ Head(u) \in {"+", "-"} THEN Tail(u) ELSE u
    IN  body # <<>> /\ \A i \in 1..Len(body) : IsDigit(body[i])
IsTwoIntegers(s) ==
    \E i \in 1..Len(s) :
        /\ s[i] = "-"
        /\ \A j \in 1..Len(s) : s[j] = "-" => j = i
        /\ IsIntegerText(SubSeq(s, 1, i - 1))
        /\ IsIntegerText(SubSeq(s, i + 1, Len(s)))
WellFormedRow(r) == IsTwoIntegers(r.Result)
SameRecord(r, t) ==
    /\ r.SLNo = t.SLNo /\ r.Date = t.Date /\ r.Player1 = t.Player1
    /\ r.Player2 = t.Player2 /\ r.Result = t.Result /\ r.Special = t.Special

\* C1: calculate_ratings replays the matches in ascending (date, sequence_no)
\* order whatever the row order of the input: every match record gets the
\* post-match ratings it gets when the same records are given in sorted order.
C1_ReplaysInDateSequenceOrder ==
    Returned =>
        \A sorted \in {CalculateRatings([data_df EXCEPT !.rows = SortByDateSeq(@)],
                                         initial_ratings_df).df} :
            \A i \in 1..Len(Out.rows) :
                RatingsOfRow(Out.rows[i]) = RatingsOfRow(RowOf(sorted.rows, Out.rows[i].SLNo))

\* C2: a match whose result is not two integers separated by one '-' is
\* skipped: the step over it leaves its rating fields and the whole rating
\* state as they were and moves on to the next row; at the end every other
\* match has the ratings, and the rating state the value, that the log without
\* the skipped matches gives, and every row has been visited.
C2_SkipStep ==
    [][(InLoop /\ ~WellFormedRow(result_df.rows[index]))
          => /\ player_ratings' = player_ratings
             /\ result_df' = result_df
             /\ index' = index + 1
             /\ pc' = "calculate_ratings"]_vars
C2_AsIfAbsent ==
    Returned =>
        \A without \in {CalculateRatings([data_df EXCEPT !.rows = SelectSeq(@, WellFormedRow)],
                                          initial_ratings_df)} :
            /\ Len(Out.rows) = Len(data_df.rows)
            /\ index = Len(data_df.rows) + 1
            /\ player_ratings = without.ratings
            /\ \A i \in 1..Len(Out.rows) :
                   WellFormedRow(Out.rows[i]) =>
                       RatingsOfRow(Out.rows[i])
                           = RatingsOfRow(RowOf(without.df.rows, Out.rows[i].SLNo))
C2_MalformedSkipped == []C2_AsIfAbsent /\ C2_SkipStep
C2_Witness ==
    /\ Returned
    /\ \E i \in 1..Len(Out.rows) : \E j \in (i + 1)..Len(Out.rows) :
           /\ ~WellFormedRow(Out.rows[i])
           /\ WellFormedRow(Out.rows[j])
           /\ Strip(Out.rows[i].Player1) \in {Strip(Out.rows[j].Player1), Strip(Out.rows[j].Player2)}
           /\ RatingsOfRow(Out.rows[j]) # RatingsOfRow(data_df.rows[j])

\* C3: the caller can tell a skipped match from a processed match whose
\* rating did not change: in the returned log no skipped row carries the same
\* rating fields, before and after, as a processed row.
C3_SkippedTellable ==
    Returned =>
        \A i \in 1..Len(Out.rows) : \A j \in 1..Len(Out.rows) :
            (~WellFormedRow(Out.rows[i]) /\ WellFormedRow(Out.rows[j]))
                => <<data_df.ratingCols, RatingsOfRow(data_df.rows[i]), RatingsOfRow(Out.rows[i])>>
                       # <<data_df.ratingCols, RatingsOfRow(data_df.rows[j]), RatingsOfRow(Out.rows[j])>>

\* the seed of player p: the rating of the last seed row with that (trimmed) name
IsSeeded(seeds, p) == \E i \in 1..Len(seeds) : Strip(seeds[i].Player) = p
SeedOf(seeds, p) ==
    LET last == CHOOSE i \in 1..Len(seeds) :
                    /\ Strip(seeds[i].Player) = p
                    /\ \A j \in (i + 1)..Len(seeds) : Strip(seeds[j].Player) # p
    IN  seeds[last].Rating
\* score of one side in units of 2^-14: 1 for the winner, 0 for the loser, 1/2 for a tie
ScoreUnits(mine, theirs) ==
    IF mine > theirs THEN FracUnit ELSE IF mine < theirs THEN 0 ELSE FracUnit \div 2
CurrentRating(p) == Get(player_ratings, p, Pts(DefaultRating))
\* the update rule on the row at index, for both players when `both`, else
\* only when the two participants are distinct
UpdateRule(both) ==
    LET row == result_df.rows[index]
        a == Strip(row.Player1)
        b == Strip(row.Player2)
        Ra == CurrentRating(a)
        Rb == CurrentRating(b)
        sc == ParseResult(row.Result)
        Ea == ToFrac(calculate_win_probability(Ra, Rb))
        Eb == ToFrac(calculate_win_probability(Rb, Ra))
    IN  (InLoop /\ WellFormedRow(row) /\ (both \/ a # b)) =>
            /\ a \in DOMAIN player_ratings' /\ b \in DOMAIN player_ratings'
            /\ (player_ratings'[a] - Ra) * FracUnit
                   = K_FACTOR * RS * (ScoreUnits(sc.score1, sc.score2) - Ea)
            /\ (player_ratings'[b] - Rb) * FracUnit
                   = K_FACTOR * RS * (ScoreUnits(sc.score2, sc.score1) - Eb)
\* a player with no earlier processed match has the seed rating, or 1200
StartsFromSeedOrDefault ==
    pc = "calculate_ratings" =>
        \A p \in {NameA, NameB, NameC} :
            (\A i \in 1..(index - 1) :
                 WellFormedRow(result_df.rows[i]) =>
                     p \notin {Strip(result_df.rows[i].Player1), Strip(result_df.rows[i].Player2)})
                => CurrentRating(p) = IF IsSeeded(initial_ratings_df, p)
                                       THEN Pts(SeedOf(initial_ratings_df, p))
                                       ELSE Pts(1200)
ConcreteScenario ==
    (/\ Returned
     /\ initial_ratings_df = SeedsEqual
     /\ Len(data_df.rows) = 1
     /\ data_df.rows[1].Player1 = NameA /\ data_df.rows[1].Player2 = NameB
     /\ data_df.rows[1].Result = <<"2", "-", "0">>)
        => /\ player_ratings[NameA] = Pts(1208) /\ player_ratings[NameB] = Pts(1192)
           /\ RatingsOfRow(Out.rows[1]) = <<1208, 1192>>

\* C4 as stated: for every processed match the new state values of both
\* participants are R + 16 * (S - E), from the seed or 1200; seeds
\* {A:1200, B:1200} and A vs B "2-0" give 1208 and 1192.
C4_UpdateRuleEveryMatch ==
    /\ []StartsFromSeedOrDefault
    /\ []ConcreteScenario
    /\ [][UpdateRule(TRUE)]_vars
\* a processed match of a player against themself: the state keeps the value
\* written last, the one computed for the second side
SelfMatchRule ==
    LET row == result_df.rows[index]
        a == Strip(row.Player1)
        R == CurrentRating(a)
        sc == ParseResult(row.Result)
    IN  (InLoop /\ WellFormedRow(row) /\ a = Strip(row.Player2)) =>
            /\ a \in DOMAIN player_ratings'
            /\ (player_ratings'[a] - R) * FracUnit
                   = K_FACTOR * RS * (ScoreUnits(sc.score2, sc.score1)
                                        - ToFrac(calculate_win_probability(R, R)))
\* C4 amended: the same for every processed match between two distinct
\* players; when both sides are the same player the state keeps only R_b'.
C4_UpdateRuleDistinctPlayers ==
    /\ []StartsFromSeedOrDefault
    /\ []ConcreteScenario
    /\ [][UpdateRule(FALSE) /\ SelfMatchRule]_vars
C4_Witness ==
    /\ Returned
    /\ initial_ratings_df = SeedsEqual
    /\ Len(data_df.rows) = 1
    /\ data_df.rows[1].Player1 = NameA /\ data_df.rows[1].Player2 = NameB
    /\ data_df.rows[1].Result = <<"2", "-", "0">>
    /\ player_ratings[NameA] = Pts(1208)

\* the two calls of calculate_win_probability of the last processed row:
\* <<own rating, opponent's rating, returned probability>>
LastProbabilities ==
    IF locals = <<>> THEN {}
    ELSE {<<locals[1].rating1, locals[1].rating2, locals[1].expected1>>,
          <<locals[1].rating2, locals[1].rating1, locals[1].expected2>>}
\* a float below 2^-60
IsTiny(f) == f.m = 0 \/ f.e + PBits <= 0 - 60
InUnitInterval(f) == f.m = 0 \/ f.e + PBits <= 0 \/ f = FOne

\* C5 as stated: with ratings 3000 points apart the win probability is
\* exactly 0.0 when the opponent is the higher rated and exactly 1.0 otherwise.
C5_ClampAt3000 ==
    \A t \in LastProbabilities :
        /\ t[2] - t[1] = Pts(3000) => t[3] = FZero
        /\ t[1] - t[2] = Pts(3000) => t[3] = FOne
\* C5 amended: 3000 points apart the probability is exactly 1.0 for the
\* higher rated side and a positive value below 2^-60, not 0.0, for the lower
\* rated side; it is always a number in [0, 1], and it is exactly 0.0 only
\* when the exponential overflows (opponent more than 46000 points ahead).
C5_TinyNotZeroAt3000 ==
    \A t \in LastProbabilities :
        /\ t[2] - t[1] = Pts(3000) => (t[3] # FZero /\ IsTiny(t[3]))
        /\ t[1] - t[2] = Pts(3000) => t[3] = FOne
        /\ InUnitInterval(t[3])
        /\ t[3] = FZero => t[2] - t[1] > Pts(46000)
        /\ t[2] - t[1] > Pts(47000) => t[3] = FZero
C5_Witness ==
    \E t \in LastProbabilities : t[2] - t[1] = Pts(3000) /\ t[3] # FZero

\* C6: a match with equal scores is scored 1/2 for both sides whatever the
\* tied score is, and between equally rated participants it leaves both
\* ratings of the rating state exactly as they were.
C6_DrawScoredHalf ==
    [][LET row == result_df.rows[index]
           a == Strip(row.Player1)
           b == Strip(row.Player2)
           Ra == CurrentRating(a)
           Rb == CurrentRating(b)
           sc == ParseResult(row.Result)
       IN  (InLoop /\ WellFormedRow(row) /\ sc.score1 = sc.score2) =>
               /\ (player_ratings'[a] - Ra) * FracUnit
                      = K_FACTOR * RS * (FracUnit \div 2 - ToFrac(calculate_win_probability(Ra, Rb)))
               /\ (player_ratings'[b] - Rb) * FracUnit
                      = K_FACTOR * RS * (FracUnit \div 2 - ToFrac(calculate_win_probability(Rb, Ra)))
               /\ Ra = Rb => (player_ratings'[a] = Ra /\ player_ratings'[b] = Rb)]_vars
C6_Witness ==
    /\ pc = "calculate_ratings"
    /\ index > 1
    /\ locals # <<>>
    /\ result_df.rows[index - 1].Result = <<"3", "-", "3">>
    /\ Strip(result_df.rows[index - 1].Player1) # Strip(result_df.rows[index - 1].Player2)
    /\ locals[1].rating1 = locals[1].rating2
    /\ player_ratings[Strip(result_df.rows[index - 1].Player1)] = locals[1].rating1

\* a log of one decisive match between two distinct players, neither seeded
SingleDecisiveUnseeded ==
    /\ Returned
    /\ Len(data_df.rows) = 1
    /\ WellFormedRow(data_df.rows[1])
    /\ ParseResult(data_df.rows[1].Result).score1 # ParseResult(data_df.rows[1].Result).score2
    /\ Strip(data_df.rows[1].Player1) # Strip(data_df.rows[1].Player2)
    /\ ~IsSeeded(initial_ratings_df, Strip(data_df.rows[1].Player1))
    /\ ~IsSeeded(initial_ratings_df, Strip(data_df.rows[1].Player2))

\* C7: after a single decisive match between two distinct unseeded players
\* the winner has gained what the loser has lost: R_a' - 1200 = -(R_b' - 1200).
C7_ZeroSumFromEqualStart ==
    SingleDecisiveUnseeded =>
        player_ratings[Strip(data_df.rows[1].Player1)] - Pts(1200)
            = 0 - (player_ratings[Strip(data_df.rows[1].Player2)] - Pts(1200))
C7_Witness ==
    /\ SingleDecisiveUnseeded
    /\ player_ratings[Strip(data_df.rows[1].Player1)] # Pts(1200)

\* the rating fields of row i of a frame: whether the columns exist, and the values
RatingFields(df, i) == <<df.ratingCols, df.rows[i].RatingP1, df.rows[i].RatingP2>>
SameRowsSameOrder ==
    /\ Len(Out.rows) = Len(data_df.rows)
    /\ Out.dateRepr = data_df.dateRepr
    /\ \A i \in 1..Len(Out.rows) : SameRecord(Out.rows[i], data_df.rows[i])

ReplayChoices ==
    {c \in MatchChoices :
        c.Result \in {<<"2", "-", "0">>, <<"2", "-", "x">>, <<"1", "-", " ", "2">>}}

RatingsReturnRecorded ==
    /\ Returning
    /\ earlier' = earlier \cup {[seeds |-> initial_ratings_df, log |-> result_df]}

NextReplays ==
    \/ \E c \in ReplayChoices : AppendMatch(c, 1)
    \/ \E seeds \in SeedTables : CallCalculateRatings(seeds)
    \/ RatingsLoop
    \/ RatingsReturnRecorded

SpecReplays == Init /\ [][NextReplays]_vars

\* C8: calculate_ratings is a function of its two inputs: every replay of
\* the log with the same seed table returns the same log, whatever replays
\* with other seed tables ran before it, and the log returned is the one a
\* replay starting from the seed table alone gives.
C8_ReplayIsFunctionOfInputs ==
    /\ \A r \in earlier : \A t \in earlier : r.seeds = t.seeds => r.log = t.log
    /\ \A r \in earlier : r.log = CalculateRatings(data_df, r.seeds).df
C8_Witness ==
    /\ Returned
    /\ \E r \in earlier : \E t \in earlier :
           /\ r.seeds # t.seeds
           /\ r.log # t.log
           /\ t.seeds = initial_ratings_df
           /\ Len(t.log.rows) = MaxRows

\* C10: no operation modifies the match log or the seed table the caller
\* passed in: the caller's log and the seed table are the same after every
\* step of calculate_ratings and after calculate_championship_stats, and the
\* rated log handed to generate_leaderboard_with_changes is the same after it,
\* the representation of its Date column included.
C10_InputsUntouched ==
    [][/\ pc' # "load" => data_df' = data_df
       /\ pc = "calculate_ratings" => initial_ratings_df' = initial_ratings_df
       /\ pc' = "generate_leaderboard_with_changes" => new_df' = new_df]_vars

\* ------------------------------------------------------------------------
\* The stored log: data.csv as load_stored_data returns it, shown as titles
\* and as a leaderboard
\* ------------------------------------------------------------------------
TagClubmatch == <<"x", " ", "C", "l", "u", "b", "M", "A", "T", "C", "H">>
NoResult == <<>>

\* rows of a stored log: players, result (an empty cell is NaN), special tag
\* and the ratings stored with the match
StoredChoices ==
    { [Player1 |-> NameA, Player2 |-> NameB, Result |-> <<"2", "-", "0">>,
       Special |-> NoTag, RatingP1 |-> 1208, RatingP2 |-> 1192],
      [Player1 |-> NameB, Player2 |-> NameAPadded, Result |-> <<"1", "-", "1">>,
       Special |-> NoTag, RatingP1 |-> 1200, RatingP2 |-> 1200],
      [Player1 |-> NameC, Player2 |-> NameA, Result |-> NoResult,
       Special |-> NoTag, RatingP1 |-> 1200, RatingP2 |-> 1208],
      [Player1 |-> NameB, Player2 |-> NameC, Result |-> <<"0", "-", "2">>,
       Special |-> TagLeague, RatingP1 |-> 1185, RatingP2 |-> 1215],
      [Player1 |-> NameC, Player2 |-> NameA, Result |-> <<"3", "-", "1">>,
       Special |-> TagClubmatch, RatingP1 |-> 1215, RatingP2 |-> 1192],
      [Player1 |-> NameCPadded, Player2 |-> NameB, Result |-> <<"2", "-", "x">>,
       Special |-> NoTag, RatingP1 |-> 1192, RatingP2 |-> 1192],
      [Player1 |-> NameA, Player2 |-> NameA, Result |-> <<"2", "-", "0">>,
       Special |-> NoTag, RatingP1 |-> 1208, RatingP2 |-> 1192] }

StoredDays == {1, 2, 3}

\* one more row of data.csv: next sequence number, same or a later day
AppendStored(c, day) ==
    /\ pc = "load"
    /\ data_df.ratingCols
    /\ Len(data_df.rows) < MaxRows
    /\ data_df.rows = <<>> => day = 1
    /\ \A i \in 1..Len(data_df.rows) : data_df.rows[i].Date <= day
    /\ data_df' = [data_df EXCEPT !.rows = Append(@,
           [SLNo |-> Len(data_df.rows) + 1, Date |-> day,
            Player1 |-> c.Player1, Player2 |-> c.Player2,
            Result |-> c.Result, Special |-> c.Special,
            RatingP1 |-> c.RatingP1, RatingP2 |-> c.RatingP2])]
    /\ UNCHANGED <<pc, initial_ratings_df, player_ratings, result_df, index,
                   locals, new_df, reply, earlier>>

\* load_stored_data: the rating columns are required, Date becomes datetime,
\* an empty frame is refused
LoadStoredData ==
    /\ pc = "load"
    /\ data_df.ratingCols
    /\ data_df.rows # <<>>
    /\ pc' = "idle"
    /\ new_df' = <<ToDatetime(data_df)>>
    /\ UNCHANGED <<data_df, initial_ratings_df, player_ratings, result_df, index,
                   locals, reply, earlier>>

NextStored ==
    \/ \E c \in StoredChoices, day \in StoredDays : AppendStored(c, day)
    \/ \E i \in 1..MaxRows : SwapRows(i)
    \/ LoadStoredData
    \/ CallChampionshipStats
    \/ CallLeaderboard
    \/ Resume

SpecStored == Init /\ [][NextStored]_vars

\* the leaderboard a call has just returned, and the frame it was computed from
BoardReturned == pc = "generate_leaderboard_with_changes"
Board == reply[1]
BoardLog == new_df[1].rows
TitlesReturned == pc = "calculate_championship_stats"
Titles == reply[1]
\* the trimmed names of the two sides of a row
Sides(r) == {Strip(r.Player1), Strip(r.Player2)}
RowsOf(rows) == {rows[i] : i \in 1..Len(rows)}
PlayersOf(rows) == UNION {Sides(r) : r \in RowsOf(rows)}
BoardRowsOf(player) == {i \in 1..Len(Board) : Board[i].PlayerName = player}
BoardRow(player) == Board[CHOOSE i \in 1..Len(Board) : Board[i].PlayerName = player]

\* appearances of a player as either participant, and the parseable matches
\* in which the player's side has strictly the higher score
Appearances(rows, p) ==
    Cardinality({i \in 1..Len(rows) : Strip(rows[i].Player1) = p})
        + Cardinality({i \in 1..Len(rows) : Strip(rows[i].Player2) = p})
WinsOf(rows, p) ==
    Cardinality({i \in 1..Len(rows) :
        /\ WellFormedRow(rows[i])
        /\ \/ (Strip(rows[i].Player1) = p
                /\ ParseResult(rows[i].Result).score1 > ParseResult(rows[i].Result).score2)
           \/ (Strip(rows[i].Player2) = p
                /\ ParseResult(rows[i].Result).score2 > ParseResult(rows[i].Result).score1)})

\* C11: the leaderboard has exactly one row per trimmed player name of the
\* log and no other row; Matches Played is the number of the player's
\* appearances, unparseable results included, and Won the number of parseable
\* matches the player's side strictly outscored the other in.
C11_OneRowPerPlayerWithCounts ==
    BoardReturned =>
        /\ \A i \in 1..Len(Board) : Board[i].PlayerName \in PlayersOf(BoardLog)
        /\ \A p \in PlayersOf(BoardLog) :
               /\ Cardinality(BoardRowsOf(p)) = 1
               /\ BoardRow(p).MatchesPlayed = Appearances(BoardLog, p)
               /\ BoardRow(p).Won = WinsOf(BoardLog, p)
C11_Witness ==
    /\ BoardReturned
    /\ \E i \in 1..Len(BoardLog) : ~WellFormedRow(BoardLog[i])
    /\ \E i \in 1..Len(BoardLog) : BoardLog[i].Player2 = NameAPadded
    /\ Len(Board) = 3
    /\ BoardRow(NameA).MatchesPlayed = 2
    /\ BoardRow(NameA).Won = 0

\* the player's last match in ascending (date, sequence_no) order, and the
\* ratings recorded for the player on a row
LastMatchOf(rows, p) ==
    CHOOSE r \in RowsOf(rows) :
        /\ p \in Sides(r)
        /\ \A q \in RowsOf(rows) : p \in Sides(q) => (q = r \/ Before(q, r))
RecordedFor(r, p) ==
    (IF Strip(r.Player1) = p THEN {r.RatingP1} ELSE {})
        \cup (IF Strip(r.Player2) = p THEN {r.RatingP2} ELSE {})

\* C12: whatever the row order of the log, a player's Last Rating is the
\* post-match rating recorded for the player on the player's last match in
\* ascending (date, sequence_no) order.
C12_LastRatingOfLastMatch ==
    BoardReturned =>
        \A p \in PlayersOf(BoardLog) :
            BoardRow(p).LastRating \in RecordedFor(LastMatchOf(BoardLog, p), p)
C12_Witness ==
    /\ BoardReturned
    /\ Len(BoardLog) = 2
    /\ BoardLog[1].SLNo = 2
    /\ NameB \in Sides(BoardLog[1]) /\ NameB \in Sides(BoardLog[2])
    /\ RecordedFor(BoardLog[1], NameB) \cap RecordedFor(BoardLog[2], NameB) = {}
    /\ BoardRow(NameB).LastRating \in RecordedFor(BoardLog[1], NameB)

\* the latest date of the log minus one day, the player's matches on or
\* before it, and the rating observed for the player on a row (the second
\* side's when the player is on both sides)
Cutoff(rows) == (CHOOSE d \in {r.Date : r \in RowsOf(rows)} :
                    \A r \in RowsOf(rows) : r.Date <= d) - 1
PriorRows(rows, p) == SelectSeq(rows, LAMBDA r : p \in Sides(r) /\ r.Date <= Cutoff(rows))
ObservedFor(r, p) == IF Strip(r.Player2) = p THEN r.RatingP2 ELSE r.RatingP1
\* what holds of every player with a match on or before the cutoff
ChangeSinceCutoff ==
    BoardReturned =>
        \A p \in PlayersOf(BoardLog) :
            PriorRows(BoardLog, p) # <<>> =>
                /\ BoardRow(p).IsNew = FALSE
                /\ BoardRow(p).RatingChange
                       = BoardRow(p).LastRating
                           - ObservedFor(LastMatchOf(PriorRows(BoardLog, p), p), p)

\* C13 as stated: a player with a match on or before the cutoff has is_new
\* false and rating_change = current rating minus the rating of the last such
\* match; a player with none has is_new true and no numeric rating change.
C13_NewHasNoNumericChange ==
    /\ ChangeSinceCutoff
    /\ BoardReturned =>
           \A p \in PlayersOf(BoardLog) :
               PriorRows(BoardLog, p) = <<>> =>
                   (BoardRow(p).IsNew = TRUE /\ BoardRow(p).RatingChange \notin Int)
\* C13 amended: ... a player with none has is_new true and the rating change
\* reported for that player is the number 0.
C13_NewHasZeroChange ==
    /\ ChangeSinceCutoff
    /\ BoardReturned =>
           \A p \in PlayersOf(BoardLog) :
               PriorRows(BoardLog, p) = <<>> =>
                   (BoardRow(p).IsNew = TRUE /\ BoardRow(p).RatingChange = 0)
C13_Witness ==
    /\ BoardReturned
    /\ \E p \in PlayersOf(BoardLog) : \E q \in PlayersOf(BoardLog) :
           /\ PriorRows(BoardLog, p) = <<>>
           /\ BoardRow(p).IsNew = TRUE
           /\ PriorRows(BoardLog, q) # <<>>
           /\ BoardRow(q).RatingChange # 0

\* position of a player in the order of first appearance in the
\* (date, sequence_no)-sorted log
FirstAppearance(rows, p) ==
    CHOOSE k \in 1..Len(PlayersInOrder(SortByDateSeq(rows), <<>>)) :
        PlayersInOrder(SortByDateSeq(rows), <<>>)[k] = p
RankedByRating ==
    BoardReturned =>
        /\ \A i \in 1..Len(Board) : Board[i].Rank = i
        /\ \A i \in 1..Len(Board) : \A j \in (i + 1)..Len(Board) :
               Board[i].LastRating >= Board[j].LastRating
TiesInFirstAppearanceOrder ==
    BoardReturned =>
        \A i \in 1..Len(Board) : \A j \in (i + 1)..Len(Board) :
            Board[i].LastRating = Board[j].LastRating =>
                FirstAppearance(BoardLog, Board[i].PlayerName)
                    < FirstAppearance(BoardLog, Board[j].PlayerName)

\* C14: the rows of the leaderboard carry the ranks 1..N in order, by
\* non-increasing current rating, and players of equal current rating are
\* ranked in the order of their first appearance in the sorted log.
C14_RankedWithStableTies == RankedByRating /\ TiesInFirstAppearanceOrder

\* the log calculate_championship_stats was called on, its eligible matches
\* (no league or clubmatch tag), and the final of a date: the eligible match
\* of that date with the greatest sequence number
TitleLog == data_df.rows
EligibleRows == {r \in RowsOf(TitleLog) : ~is_excluded(r.Special)}
FinalsOfLog ==
    {r \in EligibleRows : \A q \in EligibleRows : q.Date = r.Date => q.SLNo <= r.SLNo}
Decisive(r) ==
    WellFormedRow(r) /\ ParseResult(r.Result).score1 # ParseResult(r.Result).score2
WinnerOf(r) ==
    IF ParseResult(r.Result).score1 > ParseResult(r.Result).score2
    THEN Strip(r.Player1) ELSE Strip(r.Player2)
LoserOf(r) ==
    IF ParseResult(r.Result).score1 > ParseResult(r.Result).score2
    THEN Strip(r.Player2) ELSE Strip(r.Player1)
\* a map of counts holds exactly the given count for every player
HoldsCounts(map, Count(_)) ==
    /\ \A p \in PlayersOf(TitleLog) : Get(map, p, 0) = Count(p)
    /\ \A p \in DOMAIN map : p \in PlayersOf(TitleLog) /\ map[p] > 0

\* C15: titles and runner-ups come from the daily finals only: a player's
\* title count is the number of dates whose final is parseable, decisive and
\* won by the player, the runner-up count the number of those lost by the
\* player; a drawn or unparseable final credits nobody for its date.
C15_OnlyDailyFinalCredits ==
    TitlesReturned =>
        /\ HoldsCounts(Titles.titles,
               LAMBDA p : Cardinality({r \in FinalsOfLog : Decisive(r) /\ WinnerOf(r) = p}))
        /\ HoldsCounts(Titles.runner_ups,
               LAMBDA p : Cardinality({r \in FinalsOfLog : Decisive(r) /\ LoserOf(r) = p}))

\* a tag that contains the word in some letter case
CaseVariants(c) ==
    {c} \cup {UpperLetters[k] : k \in {j \in 1..Len(LowerLetters) : LowerLetters[j] = c}}
HasWord(tag, word) ==
    \E i \in 1..(Len(tag) - Len(word) + 1) :
        \A k \in 1..Len(word) : tag[i + k - 1] \in CaseVariants(word[k])
TaggedOut(r) ==
    \/ HasWord(r.Special, <<"l", "e", "a", "g", "u", "e">>)
    \/ HasWord(r.Special, <<"c", "l", "u", "b", "m", "a", "t", "c", "h">>)
NotTaggedOut(r) == ~TaggedOut(r)

C17_EmptyLogEmptyResults ==
    /\ (Returned /\ data_df.rows = <<>>) => Out.rows = <<>>
    /\ (TitlesReturned /\ data_df.rows = <<>>) =>
           (DOMAIN Titles.titles = {} /\ DOMAIN Titles.runner_ups = {})
    /\ (BoardReturned /\ BoardLog = <<>>) => Board = <<>>
C17_Witness ==
    /\ BoardReturned
    /\ data_df.rows = <<>>
    /\ BoardLog = <<>>
    /\ Board = <<>>

\* ------------------------------------------------------------------------
\* Replays in which a player enters a match with a rating that is no integer
\* ------------------------------------------------------------------------
SeedsUneven == <<[Player |-> NameA, Rating |-> 1250]>>
CarryChoices ==
    {c \in MatchChoices :
        /\ c.Player1 \in {NameA, NameB} /\ c.Player2 \in {NameA, NameB}
        /\ c.Player1 # c.Player2}

NextCarry ==
    \/ \E c \in CarryChoices : AppendMatch(c, 1)
    \/ \E seeds \in {SeedsEqual, SeedsUneven} : CallCalculateRatings(seeds)
    \/ RatingsLoop
    \/ RatingsReturn

SpecCarry == Init /\ [][NextCarry]_vars

\* C18: on a processed match between two players the replay starts from the
\* ratings of the rating state as they are, stores the new ratings there
\* unrounded, and writes to the row the integers nearest to them; the new
\* ratings are the update rule applied to the unrounded starting ratings.
C18_LogRoundedStateUnrounded ==
    [][LET row == result_df.rows[index]
           a == Strip(row.Player1)
           b == Strip(row.Player2)
       IN  (InLoop /\ WellFormedRow(row) /\ a # b) =>
               /\ UpdateRule(FALSE)
               /\ locals' # <<>>
               /\ locals'[1].rating1 = CurrentRating(a)
               /\ locals'[1].rating2 = CurrentRating(b)
               /\ player_ratings'[a] = locals'[1].new_rating1
               /\ player_ratings'[b] = locals'[1].new_rating2
               /\ 2 * Abs(Pts(result_df'.rows[index].RatingP1) - player_ratings'[a]) <= RS
               /\ 2 * Abs(Pts(result_df'.rows[index].RatingP2) - player_ratings'[b]) <= RS]_vars
C18_Witness ==
    /\ pc = "calculate_ratings"
    /\ index = 3
    /\ locals # <<>>
    /\ locals[1].rating1 % RS # 0
    /\ locals[1].rating1 # Pts(result_df.rows[1].RatingP1)
    /\ locals[1].rating1 # Pts(result_df.rows[1].RatingP2)
    /\ Pts(result_df.rows[2].RatingP2) > player_ratings[Strip(result_df.rows[2].Player2)]

\* C19 as stated: in every row of the leaderboard the win fraction (held in
\* hundredths) is exactly wins / matches, and matches is at least 1.
C19_WinFractionExact ==
    BoardReturned =>
        \A i \in 1..Len(Board) :
            /\ Board[i].MatchesPlayed >= 1
            /\ Board[i].WinPercentage * Board[i].MatchesPlayed = 100 * Board[i].Won
\* C19 amended: the win fraction is wins / matches rounded to two decimals,
\* the hundredth nearest to the quotient, and matches is at least 1.
C19_WinFractionToTwoDecimals ==
    BoardReturned =>
        \A i \in 1..Len(Board) :
            /\ Board[i].MatchesPlayed >= 1
            /\ 2 * Abs(100 * Board[i].Won - Board[i].WinPercentage * Board[i].MatchesPlayed)
                   <= Board[i].MatchesPlayed
C19_Witness ==
    /\ BoardReturned
    /\ \E i \in 1..Len(Board) :
           /\ Board[i].MatchesPlayed = 3
           /\ Board[i].Won = 1
           /\ Board[i].WinPercentage = 33

\* a log in ascending (date, sequence_no) order, with no match of a player
\* against themself and no rating columns, replayed and then shown
SortedPlainLogShown ==
    /\ BoardReturned
    /\ ~data_df.ratingCols
    /\ \A i \in 1..Len(data_df.rows) : \A j \in (i + 1)..Len(data_df.rows) :
           Before(data_df.rows[i], data_df.rows[j])
    /\ \A r \in RowsOf(data_df.rows) : Strip(r.Player1) # Strip(r.Player2)

\* C20: for such a log every player's Last Rating is the rounded value of
\* the player's final rating in the rating state of the replay, also when the
\* player's last match was skipped as malformed.
C20_LastRatingIsFinalState ==
    SortedPlainLogShown =>
        \A p \in PlayersOf(BoardLog) :
            BoardRow(p).LastRating = Round(Get(player_ratings, p, Pts(DefaultRating)))
====
